---- MODULE Spec2Model ----
(***************************************************************************)
(* The three address lookup strategies of lookups.py (Trie, NearestDict,   *)
(* BisectTuple) as one state machine: an index is constructed from a list  *)
(* of target addresses, later extended with further lists, and queried     *)
(* with canonical addresses.                                               *)
(*                                                                         *)
(* Addresses are scaled down: AddrLen digits instead of 40, over the digit *)
(* alphabet HexDigits instead of the sixteen hexadecimal digits.           *)
(***************************************************************************)
EXTENDS Integers, Sequences, FiniteSets, TLC

VARIABLES strategy, trieSize, trieValue, dictValue, tupleValue, last,
          supplied, given

vars == <<strategy, trieSize, trieValue, dictValue, tupleValue, last,
          supplied, given>>

(***************************************************************************)
(* Bounds                                                                  *)
(***************************************************************************)
\* digits of an address (40 in the program)
AddrLen == 2
\* addresses handed to one index over its life, constructor and Extend calls
MaxTargets == 2

(***************************************************************************)
(* Characters and addresses                                                *)
(***************************************************************************)
\* the lower-case digits, in increasing numeric value
HexDigits == <<"0", "f">>

\* the same letters in upper case, as input text may hold them
Radix == Len(HexDigits)

\* str.lower() on one character
LowerChar(c) == IF c = "F" THEN "f" ELSE c

\* str.upper() on one character
UpperChar(c) == IF c = "f" THEN "F" ELSE c

\* str.lower()
Lower(s) == [i \in 1..Len(s) |-> LowerChar(s[i])]

\* the value int(c, 16) gives a single digit, in either letter case
DigitValue(c) == (CHOOSE i \in 1..Len(HexDigits) : HexDigits[i] = LowerChar(c)) - 1

\* Python's None, for a nearest match that is not returned
None == <<>>

RECURSIVE hex_to_int(_)
hex_to_int(hex_address) ==
    IF hex_address = <<>> THEN 0
    ELSE hex_to_int(SubSeq(hex_address, 1, Len(hex_address) - 1)) * Radix
         + DigitValue(hex_address[Len(hex_address)])

RECURSIVE HexText(_)
\* the digits of n without padding ('%x')
HexText(n) ==
    IF n < Radix THEN <<HexDigits[n + 1]>>
    ELSE Append(HexText(n \div Radix), HexDigits[(n % Radix) + 1])

RECURSIVE ZeroPad(_, _)
ZeroPad(s, width) == IF Len(s) >= width THEN s ELSE ZeroPad(<<"0">> \o s, width)

\* '%040x' % bin_address
int_to_hex(bin_address) == ZeroPad(HexText(bin_address), AddrLen)

\* Python's seq[i] for a 0-based index that may be negative
PyIndex(seq, i) == IF i < 0 THEN seq[Len(seq) + i + 1] ELSE seq[i + 1]

\* canonical addresses: AddrLen lower-case digits
Addresses == [1..AddrLen -> {HexDigits[i] : i \in 1..Len(HexDigits)}]

\* address text as a caller may supply it: canonical, or in upper case
InputAddresses == Addresses \cup {[i \in 1..AddrLen |-> UpperChar(a[i])] : a \in Addresses}

ListsUpTo(n) == UNION {[1..k -> InputAddresses] : k \in 0..n}

(***************************************************************************)
(* The scoring loop shared by NearestDict and BisectTuple                  *)
(***************************************************************************)
RECURSIVE StrengthLoop(_, _, _)
\* for lhs, rhs in zip(...): if lhs != rhs: break; strength += 1
StrengthLoop(hex_address, nearest_match, strength) ==
    IF strength >= Len(hex_address) \/ strength >= Len(nearest_match) THEN strength
    ELSE IF hex_address[strength + 1] # nearest_match[strength + 1] THEN strength
    ELSE StrengthLoop(hex_address, nearest_match, strength + 1)

\* the commented-out alternative: every position that agrees is counted
PositionalStrength(hex_address, nearest_match) ==
    Cardinality({i \in 1..Len(hex_address) :
                    i <= Len(nearest_match) /\ hex_address[i] = nearest_match[i]})

LeadingStrength(hex_address, nearest_match) == StrengthLoop(hex_address, nearest_match, 0)

(***************************************************************************)
(* Trie                                                                    *)
(***************************************************************************)
\* _value, a dict of dicts, is held as the set of its paths: p is in the set
\* iff following the digits of p from the root finds a node

\* the inner loop of Extend: a node for every prefix of the target
TrieInsert(value, target) == value \cup {SubSeq(target, 1, k) : k \in 1..Len(target)}

RECURSIVE TrieExtendLoop(_, _)
TrieExtendLoop(self, targets) ==
    IF targets = <<>> THEN self
    ELSE TrieExtendLoop([size  |-> self.size + 1,
                         value |-> TrieInsert(self.value, Head(targets))],
                        Tail(targets))

TrieExtend(self, list_of_addresses) ==
    TrieExtendLoop(self, [i \in 1..Len(list_of_addresses) |-> Lower(list_of_addresses[i])])

TrieInit(list_of_addresses) == TrieExtend([size |-> 0, value |-> {}], list_of_addresses)

TrieLen(size) == size

RECURSIVE TrieWalk(_, _, _)
\* for count, char in enumerate(hex_address): count is what the loop leaves
\* behind, the index of the digit it broke at or of the last digit it reached
TrieWalk(value, hex_address, count) ==
    IF SubSeq(hex_address, 1, count + 1) \notin value THEN count
    ELSE IF count + 1 >= Len(hex_address) THEN count
    ELSE TrieWalk(value, hex_address, count + 1)

TrieFindClosestMatch(value, hex_address) ==
    [raised   |-> "none",
     strength |-> TrieWalk(value, hex_address, 0),
     query    |-> hex_address,
     nearest  |-> None]

\* a walk that creates the nodes it does not find
TrieValueAfterInsertingFind(value, hex_address) == TrieInsert(value, hex_address)

\* _value after FindClosestMatch: the walk assigns to locals only
TrieValueAfterFind(value, hex_address) == value

(***************************************************************************)
(* bisect                                                                  *)
(***************************************************************************)
RECURSIVE bisect_left(_, _, _, _)
bisect_left(a, x, lo, hi) ==
    IF lo >= hi THEN lo
    ELSE LET mid == (lo + hi) \div 2
         IN  IF a[mid + 1] < x THEN bisect_left(a, x, mid + 1, hi)
             ELSE bisect_left(a, x, lo, mid)

RECURSIVE bisect_right(_, _, _, _)
bisect_right(a, x, lo, hi) ==
    IF lo >= hi THEN lo
    ELSE LET mid == (lo + hi) \div 2
         IN  IF x < a[mid + 1] THEN bisect_right(a, x, lo, mid)
             ELSE bisect_right(a, x, mid + 1, hi)

\* the insertion point before the entries equal to x
BisectLeftOfAll(a, x) == bisect_left(a, x, 0, Len(a))

\* bisect.bisect(a, x)
bisect(a, x) == bisect_right(a, x, 0, Len(a))

InsertAt(a, idx, x) == SubSeq(a, 1, idx) \o <<x>> \o SubSeq(a, idx + 1, Len(a))

(***************************************************************************)
(* NearestDict                                                             *)
(***************************************************************************)
\* _value, a sorted dict whose values are all True, is held as its key list

\* _value[key] = True
DictSet(key_list, key) ==
    LET idx == bisect_left(key_list, key, 0, Len(key_list))
    IN  IF idx < Len(key_list) /\ key_list[idx + 1] = key THEN key_list
        ELSE InsertAt(key_list, idx, key)

RECURSIVE DictUpdate(_, _)
DictUpdate(key_list, addrs) ==
    IF addrs = <<>> THEN key_list
    ELSE DictUpdate(DictSet(key_list, hex_to_int(Head(addrs))), Tail(addrs))

NearestDictInit(list_of_addresses) == DictUpdate(<<>>, list_of_addresses)

\* an Extend that puts the new keys in place of the old ones
NearestDictReplace(key_list, list_of_addresses) ==
    DictUpdate(<<>>, [i \in 1..Len(list_of_addresses) |-> Lower(list_of_addresses[i])])

NearestDictExtend(key_list, list_of_addresses) ==
    DictUpdate(key_list, [i \in 1..Len(list_of_addresses) |-> Lower(list_of_addresses[i])])

NearestDictLen(key_list) == Len(key_list)

Abs(n) == IF n < 0 THEN -n ELSE n

\* sortedcollections.NearestDict.nearest_key with the default rounding
nearest_key(key_list, request) ==
    IF key_list = <<>> THEN [raised |-> "KeyError", key |-> 0]
    ELSE LET index == bisect_left(key_list, request, 0, Len(key_list))
         IN  IF index >= Len(key_list)
                THEN [raised |-> "none", key |-> PyIndex(key_list, index - 1)]
             ELSE IF PyIndex(key_list, index) = request
                THEN [raised |-> "none", key |-> PyIndex(key_list, index)]
             ELSE IF Abs(PyIndex(key_list, index - 1) - request)
                       < Abs(PyIndex(key_list, index) - request)
                THEN [raised |-> "none", key |-> PyIndex(key_list, index - 1)]
             ELSE [raised |-> "none", key |-> PyIndex(key_list, index)]

NearestDictFindClosestMatch(key_list, hex_address) ==
    LET found == nearest_key(key_list, hex_to_int(hex_address))
    IN  IF found.raised # "none"
           THEN [raised |-> found.raised, strength |-> 0,
                 query |-> hex_address, nearest |-> None]
        ELSE LET nearest_match == int_to_hex(found.key)
             IN  [raised   |-> "none",
                  strength |-> LeadingStrength(hex_address, nearest_match),
                  query    |-> hex_address,
                  nearest  |-> nearest_match]

DictValueAfterFind(key_list, hex_address) == key_list

(***************************************************************************)
(* BisectTuple                                                             *)
(***************************************************************************)
RECURSIVE Sorted(_)
\* sorted(values)
Sorted(values) ==
    IF values = <<>> THEN <<>>
    ELSE LET rest == Sorted(SubSeq(values, 1, Len(values) - 1))
             x    == values[Len(values)]
         IN  InsertAt(rest, bisect_right(rest, x, 0, Len(rest)), x)

BisectTupleInit(list_of_addresses) ==
    Sorted([i \in 1..Len(list_of_addresses) |-> hex_to_int(list_of_addresses[i])])

BisectTupleLen(value) == Len(value)

BisectTupleFindClosestMatch(value, hex_address) ==
    LET bin_addr == hex_to_int(hex_address)
        idx      == bisect(value, bin_addr)
    IN  IF value = <<>>
           THEN [raised |-> "IndexError", strength |-> 0,
                 query |-> hex_address, nearest |-> None]
        ELSE LET nearest_match == int_to_hex(PyIndex(value, idx - 1))
             IN  [raised   |-> "none",
                  strength |-> LeadingStrength(hex_address, nearest_match),
                  query    |-> hex_address,
                  nearest  |-> nearest_match]

TupleValueAfterFind(value, hex_address) == value

\* an Extend that takes the call and does nothing
BisectTupleSilentExtend(value, list_of_addresses) ==
    [raised |-> "none", value |-> value]

\* the class defines no Extend: the attribute lookup raises
BisectTupleExtend(value, list_of_addresses) ==
    [raised |-> "AttributeError", value |-> value]

(***************************************************************************)
(* The state machine                                                       *)
(***************************************************************************)
\* PickStrategy's names
Strategies == {"trie", "nearest", "bisect"}

\* what a call left behind: the call, its argument and what it returned
Outcome(op, arg, ret) ==
    [op |-> op, arg |-> arg, raised |-> ret.raised, strength |-> ret.strength,
     query |-> ret.query, nearest |-> ret.nearest]

NoReturn == [raised |-> "none", strength |-> 0, query |-> None, nearest |-> None]

LowerSet(list_of_addresses) ==
    {Lower(list_of_addresses[i]) : i \in 1..Len(list_of_addresses)}

\* strategy_ctor(targets): one index, built from the list it is given
Init ==
    \E name \in Strategies, list_of_addresses \in ListsUpTo(MaxTargets) :
        /\ strategy = name
        /\ trieSize = IF name = "trie" THEN TrieInit(list_of_addresses).size ELSE 0
        /\ trieValue = IF name = "trie" THEN TrieInit(list_of_addresses).value ELSE {}
        /\ dictValue = IF name = "nearest" THEN NearestDictInit(list_of_addresses) ELSE <<>>
        /\ tupleValue = IF name = "bisect" THEN BisectTupleInit(list_of_addresses) ELSE <<>>
        /\ last = Outcome("__init__", None, NoReturn)
        /\ supplied = LowerSet(list_of_addresses)
        /\ given = Len(list_of_addresses)

\* len(index)
CountOf(size, dict, tuple) ==
    CASE strategy = "trie" -> TrieLen(size)
      [] strategy = "nearest" -> NearestDictLen(dict)
      [] strategy = "bisect" -> BisectTupleLen(tuple)

Count == CountOf(trieSize, dictValue, tupleValue)

\* a later call of Extend, with any list that keeps the index within MaxTargets
ExtendArguments == ListsUpTo(MaxTargets - given)

TrieExtendCall ==
    /\ strategy = "trie"
    /\ \E list_of_addresses \in ExtendArguments :
        /\ LET after == TrieExtend([size |-> trieSize, value |-> trieValue],
                                   list_of_addresses)
           IN  /\ trieSize' = after.size
               /\ trieValue' = after.value
        /\ supplied' = supplied \cup LowerSet(list_of_addresses)
        /\ given' = given + Len(list_of_addresses)
    /\ last' = Outcome("Extend", None, NoReturn)
    /\ UNCHANGED <<strategy, dictValue, tupleValue>>

NearestDictExtendCall ==
    /\ strategy = "nearest"
    /\ \E list_of_addresses \in ExtendArguments :
        /\ dictValue' = NearestDictExtend(dictValue, list_of_addresses)
        /\ supplied' = supplied \cup LowerSet(list_of_addresses)
        /\ given' = given + Len(list_of_addresses)
    /\ last' = Outcome("Extend", None, NoReturn)
    /\ UNCHANGED <<strategy, trieSize, trieValue, tupleValue>>

BisectTupleExtendCall ==
    /\ strategy = "bisect"
    /\ \E list_of_addresses \in ExtendArguments :
        LET after == BisectTupleExtend(tupleValue, list_of_addresses)
        IN  /\ tupleValue' = after.value
            /\ last' = Outcome("Extend", None,
                               [NoReturn EXCEPT !.raised = after.raised])
    /\ UNCHANGED <<strategy, trieSize, trieValue, dictValue, supplied, given>>

TrieFindCall ==
    /\ strategy = "trie"
    /\ \E hex_address \in Addresses :
        /\ last' = Outcome("FindClosestMatch", hex_address,
                           TrieFindClosestMatch(trieValue, hex_address))
        /\ trieValue' = TrieValueAfterFind(trieValue, hex_address)
    /\ UNCHANGED <<strategy, trieSize, dictValue, tupleValue, supplied, given>>

NearestDictFindCall ==
    /\ strategy = "nearest"
    /\ \E hex_address \in Addresses :
        /\ last' = Outcome("FindClosestMatch", hex_address,
                           NearestDictFindClosestMatch(dictValue, hex_address))
        /\ dictValue' = DictValueAfterFind(dictValue, hex_address)
    /\ UNCHANGED <<strategy, trieSize, trieValue, tupleValue, supplied, given>>

BisectTupleFindCall ==
    /\ strategy = "bisect"
    /\ \E hex_address \in Addresses :
        /\ last' = Outcome("FindClosestMatch", hex_address,
                           BisectTupleFindClosestMatch(tupleValue, hex_address))
        /\ tupleValue' = TupleValueAfterFind(tupleValue, hex_address)
    /\ UNCHANGED <<strategy, trieSize, trieValue, dictValue, supplied, given>>

Next ==
    \/ TrieExtendCall
    \/ NearestDictExtendCall
    \/ BisectTupleExtendCall
    \/ TrieFindCall
    \/ NearestDictFindCall
    \/ BisectTupleFindCall

Spec == Init /\ [][Next]_vars

(***************************************************************************)
(* What the claims speak of                                                *)
(***************************************************************************)
Max(S) == CHOOSE x \in S : \A y \in S : y <= x

Min(S) == CHOOSE x \in S : \A y \in S : x <= y

\* the number of leading digits in which a and b agree
CommonPrefix(a, b) ==
    Max({k \in 0..AddrLen : \A i \in 1..k : a[i] = b[i]})

\* what a query answers on an index that holds the given values
Answer(trie, dict, tuple, hex_address) ==
    CASE strategy = "trie" -> TrieFindClosestMatch(trie, hex_address)
      [] strategy = "nearest" -> NearestDictFindClosestMatch(dict, hex_address)
      [] strategy = "bisect" -> BisectTupleFindClosestMatch(tuple, hex_address)

\* the answer before a step and after it
FindNow(hex_address) == Answer(trieValue, dictValue, tupleValue, hex_address)

FindNext(hex_address) == Answer(trieValue', dictValue', tupleValue', hex_address)

\* the targets an index holds, as canonical text
Stored(trie, dict, tuple) ==
    CASE strategy = "trie" -> {p \in trie : Len(p) = AddrLen}
      [] strategy = "nearest" -> {int_to_hex(dict[i]) : i \in 1..Len(dict)}
      [] strategy = "bisect" -> {int_to_hex(tuple[i]) : i \in 1..Len(tuple)}

StoredTargets == Stored(trieValue, dictValue, tupleValue)

StoredTargetsNext == Stored(trieValue', dictValue', tupleValue')

CountNext == CountOf(trieSize', dictValue', tupleValue')

SuppliedValues == {hex_to_int(t) : t \in supplied}

Queried == last.op = "FindClosestMatch"

\* the steps of the calls: only an Extend call leaves op = "Extend" behind,
\* only a FindClosestMatch call leaves op = "FindClosestMatch"
IsTrieOrDictExtend == strategy \in {"trie", "nearest"} /\ last'.op = "Extend"

IsBisectTupleExtend == strategy = "bisect" /\ last'.op = "Extend"

IsFind == last'.op = "FindClosestMatch"

(***************************************************************************)
(* C1                                                                      *)
(***************************************************************************)
\* C1: for every strategy, after construction and any Extend calls, Count()
\* equals the number of distinct canonical (lower-cased) addresses supplied
\* so far, duplicates and letter case notwithstanding.
CountIsDistinctSupplied == Count = Cardinality(supplied)

(***************************************************************************)
(* C2                                                                      *)
(***************************************************************************)
\* C2: a Trie over a non-empty target set answers every canonical query with
\* the largest number of leading digits the query shares with a stored
\* target, the full address length for a query equal to a target.
TrieReportsLongestPrefix ==
    (strategy = "trie" /\ Queried /\ supplied # {})
        => last.strength = Max({CommonPrefix(last.arg, t) : t \in supplied})

(***************************************************************************)
(* C3                                                                      *)
(***************************************************************************)
\* C3: for every strategy, a query of an index built with zero targets does
\* not raise and returns matchLength 0 with nearestTarget None.
EmptyIndexAnswersZero ==
    (Queried /\ supplied = {})
        => /\ last.raised = "none"
           /\ last.strength = 0
           /\ last.nearest = None

(***************************************************************************)
(* C4                                                                      *)
(***************************************************************************)
\* C4: for every strategy and non-empty target set, a query q returns a
\* matchLength within 0..AddrLen, returns q itself as the query address and,
\* when a nearest target is returned, a matchLength equal to the number of
\* leading digits in which q and that target agree.
ScoreIsLeadingAgreement ==
    (Queried /\ supplied # {})
        => /\ last.raised = "none"
           /\ last.strength \in 0..AddrLen
           /\ last.query = last.arg
           /\ strategy \in {"nearest", "bisect"} => last.nearest \in Addresses
           /\ last.nearest # None
                 => last.strength = CommonPrefix(last.arg, last.nearest)

\* a nearest target that agrees with the query in some but not all leading digits
ScoredPartialMatch ==
    /\ Queried
    /\ strategy = "nearest"
    /\ last.nearest # None
    /\ last.strength > 0
    /\ last.strength < AddrLen

(***************************************************************************)
(* C5                                                                      *)
(***************************************************************************)
\* C5: NearestDict returns the stored key with the least absolute numeric
\* difference to the query, the lower key when two keys are equally distant.
NearestKeyTiesToLower ==
    (strategy = "nearest" /\ Queried /\ supplied # {})
        => LET q        == hex_to_int(last.arg)
               least    == Min({Abs(k - q) : k \in SuppliedValues})
               expected == Min({k \in SuppliedValues : Abs(k - q) = least})
           IN  /\ last.raised = "none"
               /\ last.nearest = int_to_hex(expected)

(***************************************************************************)
(* C6                                                                      *)
(***************************************************************************)
\* C6: BisectTuple over a non-empty target set returns the largest stored
\* value not above the query, also when the next stored value is closer, and
\* the largest stored value of all when the query is below every stored value.
PredecessorOrWrap ==
    (strategy = "bisect" /\ Queried /\ supplied # {})
        => LET q        == hex_to_int(last.arg)
               below    == {v \in SuppliedValues : v <= q}
               expected == IF below # {} THEN Max(below) ELSE Max(SuppliedValues)
           IN  /\ last.raised = "none"
               /\ last.nearest \in Addresses
               /\ hex_to_int(last.nearest) = expected

\* a query below two distinct stored values, answered with the larger
WrappedToLargest ==
    /\ strategy = "bisect"
    /\ Queried
    /\ Cardinality(SuppliedValues) >= 2
    /\ \A v \in SuppliedValues : hex_to_int(last.arg) < v
    /\ last.nearest = int_to_hex(Max(SuppliedValues))

(***************************************************************************)
(* C7                                                                      *)
(***************************************************************************)
\* C7: over the same non-empty target set, NearestDict and BisectTuple return
\* the same matchLength for a query that has a predecessor and is not closer
\* to its successor than to its predecessor, equidistant queries included.
StrategiesAgreeOnPredecessor ==
    (strategy = "bisect" /\ Queried /\ tupleValue # <<>>)
        => LET q       == hex_to_int(last.arg)
               below   == {v \in SuppliedValues : v <= q}
               above   == {v \in SuppliedValues : v > q}
               closer  == above # {} /\ below # {}
                             /\ Min(above) - q < q - Max(below)
               targets == [i \in 1..Len(tupleValue) |-> int_to_hex(tupleValue[i])]
               other   == NearestDictFindClosestMatch(NearestDictInit(targets), last.arg)
           IN  (below # {} /\ ~closer)
                  => /\ other.raised = "none"
                     /\ last.strength = other.strength

(***************************************************************************)
(* C8                                                                      *)
(***************************************************************************)
\* C8 as stated: an Extend of a Trie or NearestDict never lowers Count(),
\* keeps every stored target, and for every canonical query reports a
\* matchLength not lower than the one reported before the call.
ExtendNeverLowersAnyMatch ==
    [][IsTrieOrDictExtend
         => /\ CountNext >= Count
            /\ StoredTargets \subseteq StoredTargetsNext
            /\ \A q \in Addresses :
                  FindNow(q).raised = "none"
                     => /\ FindNext(q).raised = "none"
                        /\ FindNext(q).strength >= FindNow(q).strength]_vars

\* C8 as amended: an Extend of a Trie or NearestDict never lowers Count() and
\* keeps every stored target; a Trie reports for every query a matchLength
\* not lower than before; a NearestDict still answers a query equal to a
\* stored target with that target and the full matchLength.
ExtendKeepsStoredMatches ==
    [][IsTrieOrDictExtend
         => /\ CountNext >= Count
            /\ StoredTargets \subseteq StoredTargetsNext
            /\ strategy = "trie"
                  => \A q \in Addresses :
                        FindNext(q).strength >= FindNow(q).strength
            /\ strategy = "nearest"
                  => \A t \in StoredTargets :
                        /\ FindNext(t).raised = "none"
                        /\ FindNext(t).nearest = t
                        /\ FindNext(t).strength = AddrLen]_vars

\* a NearestDict that held a target and was extended with another
ExtendedNearestDict ==
    /\ strategy = "nearest"
    /\ last.op = "Extend"
    /\ Len(dictValue) >= 2

(***************************************************************************)
(* C9                                                                      *)
(***************************************************************************)
\* C9: an Extend call on a BisectTuple raises to the caller and leaves the
\* stored tuple, Count() and the answer to every query as they were.
BisectTupleExtendRaises ==
    [][IsBisectTupleExtend
         => /\ last'.op = "Extend"
            /\ last'.raised # "none"
            /\ tupleValue' = tupleValue
            /\ CountNext = Count
            /\ \A q \in Addresses : FindNext(q) = FindNow(q)]_vars

\* a BisectTuple holding targets on which Extend was called
ExtendCalledOnBisectTuple ==
    /\ strategy = "bisect"
    /\ last.op = "Extend"
    /\ last.raised = "AttributeError"
    /\ tupleValue # <<>>

(***************************************************************************)
(* C10                                                                     *)
(***************************************************************************)
\* C10: FindClosestMatch leaves the stored state of every strategy as it
\* was, so every query is answered after the call as it was before it, and
\* a query repeated straight away returns the identical result.
FindLeavesIndexUnchanged ==
    [][IsFind
         => /\ UNCHANGED <<trieSize, trieValue, dictValue, tupleValue>>
            /\ \A q \in Addresses : FindNext(q) = FindNow(q)
            /\ (Queried /\ last'.arg = last.arg) => last' = last]_vars

\* a Trie with targets that matched some digits of a query
TrieAnsweredQuery ==
    /\ strategy = "trie"
    /\ Queried
    /\ last.strength > 0

====
